---- MODULE Spec2Model ----
(***************************************************************************)
(* State-machine model of the sdaLocal record store                        *)
(* (src/sda_local/app.py, class SDALocalApp): the in-memory dictionary      *)
(* self.data with its four collections, the backing JSON file, the two      *)
(* ttk.Treeview widgets whose item identifiers the handlers depend on, the  *)
(* finance summary label, the pending auto-reply callbacks, the answer of   *)
(* the file system to a write of the file, and the two modal dialogs a      *)
(* handler goes on after (the warning of _load_data, the confirmation of    *)
(* _delete_project), during which callbacks and a close of the window run.  *)
(* The handlers that only redraw (_show_event_details,                     *)
(* _show_project_details, _toggle_dark_mode) write to widgets that no       *)
(* handler reads back, open no dialog, and are no step of the model.        *)
(*                                                                         *)
(* Text that the code inspects character by character (strip, strptime,    *)
(* float, int, lower, string concatenation for item ids) is a sequence of  *)
(* one-character strings; text that is only stored and compared is a       *)
(* string.                                                                 *)
(***************************************************************************)
EXTENDS Integers, Sequences, FiniteSets, TLC

VARIABLES
    phase,            \* "off" (no process), "running" (mainloop), "crashed" (__init__ raised),
                      \* "showwarning" (__init__ waits in the dialog of _load_data),
                      \* "askyesno" (_delete_project waits in its confirmation dialog),
                      \* "showerror", "showinfo" (a handler waits in the dialog that
                      \* tells its outcome)
    file,             \* DATA_FILE: [kind, doc]
    data,             \* self.data: a dict, key -> list of records
    events_tree,      \* self.events_tree: rows [iid, values]
    projects_tree,    \* self.projects_tree: rows [iid, values]
    finance_summary,  \* the three numbers shown by self.finance_summary
    pending,          \* callbacks scheduled with self.after and not yet fired
    warnings,         \* messagebox.showwarning calls made by _load_data in this process
    last,             \* the handler that ran last and how it ended
    disk,             \* whether DATA_FILE can be written: "writable", "readonly", "full"
    selected,         \* the row _delete_project read from the selection before it
                      \* opened the confirmation dialog; 0 when no dialog is open
    waiting           \* the handler that waits in askyesno, showerror or showinfo,
                      \* and what it has come to: [op, outcome]

vars == <<phase, file, data, events_tree, projects_tree, finance_summary,
          pending, warnings, last, disk, selected, waiting>>

(***************************************************************************)
(* Bounds of the model.                                                    *)
(***************************************************************************)
\* Number of records the four collections may hold together when the
\* operations of one tab are explored on their own.
MaxRecords == 3
\* Number of records, when the operations of all tabs are explored together.
MaxTotal == 2
\* Number of auto-reply callbacks that may be pending at once: a message can
\* be sent while the reply to an earlier one is still to come.
MaxPending == 2
\* Number of records, when the operations of all tabs are explored together
\* on a few inputs per form: room for two messages and their two replies.
MaxAllTabs == 4
\* Number of records, when in addition the writes of the file may fail.
MaxDisk == 2

(***************************************************************************)
(* Characters and text.                                                    *)
(***************************************************************************)
Digits == {"0", "1", "2", "3", "4", "5", "6", "7", "8", "9"}

IsDigit(c) == c \in Digits

DigitVal(c) ==
    CASE c = "0" -> 0 [] c = "1" -> 1 [] c = "2" -> 2 [] c = "3" -> 3
      [] c = "4" -> 4 [] c = "5" -> 5 [] c = "6" -> 6 [] c = "7" -> 7
      [] c = "8" -> 8 [] c = "9" -> 9

\* str.isspace for the characters of the model.
IsSpace(c) == c \in {" ", "\n", "\t"}

RECURSIVE LStrip(_)
LStrip(s) ==
    IF s = <<>> THEN s
    ELSE IF IsSpace(Head(s)) THEN LStrip(Tail(s)) ELSE s

RECURSIVE RStrip(_)
RStrip(s) ==
    IF s = <<>> THEN s
    ELSE IF IsSpace(s[Len(s)]) THEN RStrip(SubSeq(s, 1, Len(s) - 1)) ELSE s

\* str.strip(): leading and trailing whitespace removed.
Strip(s) == RStrip(LStrip(s))

\* str.lower() on the letters of the model.
LowerChar(c) ==
    CASE c = "I" -> "i" [] c = "E" -> "e" [] c = "X" -> "x" [] c = "P" -> "p"
      [] c = "N" -> "n" [] c = "S" -> "s" [] c = "C" -> "c" [] c = "O" -> "o"
      [] c = "M" -> "m" [] c = "A" -> "a" [] c = "D" -> "d" [] c = "H" -> "h"
      [] c = "K" -> "k" [] c = "T" -> "t" [] c = "U" -> "u"
      [] OTHER -> c

Lower(s) == [i \in DOMAIN s |-> LowerChar(s[i])]

\* The decimal value of a sequence of digits.
RECURSIVE DigitsVal(_)
DigitsVal(s) ==
    IF s = <<>> THEN 0
    ELSE 10 * DigitsVal(SubSeq(s, 1, Len(s) - 1)) + DigitVal(s[Len(s)])

AllDigits(s) == s # <<>> /\ \A i \in DOMAIN s : IsDigit(s[i])

\* An optional sign in front of t: [neg, body].
Unsigned(t) ==
    IF t # <<>> /\ Head(t) \in {"+", "-"}
    THEN [neg |-> Head(t) = "-", body |-> Tail(t)]
    ELSE [neg |-> FALSE, body |-> t]

(***************************************************************************)
(* datetime.strptime(date_text, "%Y-%m-%d"): four digits, a month of one   *)
(* or two digits, a day of one or two digits (or a space and a digit), the *)
(* whole text consumed, and the date a date of the calendar.               *)
(***************************************************************************)
MonthToken(t) ==
    \/ Len(t) = 1 /\ IsDigit(t[1]) /\ t[1] # "0"
    \/ Len(t) = 2 /\ t[1] = "0" /\ IsDigit(t[2]) /\ t[2] # "0"
    \/ Len(t) = 2 /\ t[1] = "1" /\ t[2] \in {"0", "1", "2"}

DayToken(t) ==
    \/ Len(t) = 1 /\ IsDigit(t[1]) /\ t[1] # "0"
    \/ Len(t) = 2 /\ t[1] \in {"0", " "} /\ IsDigit(t[2]) /\ t[2] # "0"
    \/ Len(t) = 2 /\ t[1] \in {"1", "2"} /\ IsDigit(t[2])
    \/ Len(t) = 2 /\ t[1] = "3" /\ t[2] \in {"0", "1"}

IsLeap(y) == (y % 4 = 0 /\ y % 100 # 0) \/ y % 400 = 0

DaysInMonth(y, m) ==
    IF m = 2 THEN (IF IsLeap(y) THEN 29 ELSE 28)
    ELSE IF m \in {4, 6, 9, 11} THEN 30 ELSE 31

\* TRUE when strptime returns, FALSE when it raises ValueError.
Strptime(s) ==
    /\ Len(s) >= 8
    /\ \A i \in 1..4 : IsDigit(s[i])
    /\ s[5] = "-"
    /\ \E k \in 7..(Len(s) - 1) :
          /\ s[k] = "-"
          /\ MonthToken(SubSeq(s, 6, k - 1))
          /\ DayToken(SubSeq(s, k + 1, Len(s)))
          /\ LET y == DigitsVal(SubSeq(s, 1, 4))
                 m == DigitsVal(SubSeq(s, 6, k - 1))
                 d == DigitsVal(Strip(SubSeq(s, k + 1, Len(s))))
             IN  y >= 1 /\ d <= DaysInMonth(y, m)

(***************************************************************************)
(* Python floats: a finite value (whole numbers in the model) or NaN.      *)
(***************************************************************************)
NaN == [isnan |-> TRUE, v |-> 0]

Num(n) == [isnan |-> FALSE, v |-> n]

FAdd(a, b) == IF a.isnan \/ b.isnan THEN NaN ELSE Num(a.v + b.v)

FSub(a, b) == IF a.isnan \/ b.isnan THEN NaN ELSE Num(a.v - b.v)

\* a <= 0: every comparison with NaN is False.
FLeZero(a) == ~a.isnan /\ a.v <= 0

\* float(text): [ok, value]; ok = FALSE is ValueError.  Surrounding
\* whitespace and a sign are accepted; "nan" in any case is NaN.
ParseFloat(text) ==
    LET u == Unsigned(Strip(text))
    IN  IF AllDigits(u.body)
        THEN [ok |-> TRUE,
              value |-> Num(IF u.neg THEN 0 - DigitsVal(u.body) ELSE DigitsVal(u.body))]
        ELSE IF Lower(u.body) = <<"n", "a", "n">>
        THEN [ok |-> TRUE, value |-> NaN]
        ELSE [ok |-> FALSE, value |-> Num(0)]

(***************************************************************************)
(* What the user can type or pick in the forms, and what the clock shows.  *)
(***************************************************************************)
D_2025_04_20 == <<"2", "0", "2", "5", "-", "0", "4", "-", "2", "0">>

D_2025_4_20 == <<"2", "0", "2", "5", "-", "4", "-", "2", "0">>

D_2025_02_30 == <<"2", "0", "2", "5", "-", "0", "2", "-", "3", "0">>

\* self.event_title.get()
EventTitles == { <<>>, <<" ", "A">>, <<"7">> }

\* self.event_date.get()
EventDates == { <<>>, D_2025_04_20, D_2025_4_20, D_2025_02_30 }

\* self.event_description.get("1.0", tk.END): a Text widget's content ends
\* with a newline.
EventDescriptions == { <<"\n">>, <<"C", "\n">> }

Income == <<"I", "n", "c", "o", "m", "e">>

Expense == <<"E", "x", "p", "e", "n", "s", "e">>

\* self.finance_type: a read-only combobox of these two values.
FinanceTypes == { Income, Expense }

\* self.finance_amount.get()
AmountTexts == { <<"x">>, <<"0">>, <<"-", "5">>, <<"n", "a", "n">>,
                 <<"1", "0", "0">>, <<" ", "4", "0">> }

\* self.finance_category.get()
CategoryTexts == { <<>> }

Uncategorized == <<"U", "n", "c", "a", "t", "e", "g", "o", "r", "i", "z", "e", "d">>

\* self.finance_note.get()
NoteTexts == { <<>> }

\* self.project_name.get()
ProjectNames == { <<>>, <<"H">>, <<"K", " ">> }

\* self.project_budget.get()
BudgetTexts == { <<>>, <<"x">>, <<"-", "5">> }

\* self.project_status: a read-only combobox; two of its four values.
Statuses == { "Planned", "Completed" }

\* The other fields of the project form, left as the form shows them.
ProjectManagerText == <<>>

ProjectStartText == D_2025_04_20

ProjectEndText == <<>>

ProjectDescriptionText == <<"\n">>

\* self.chat_entry.get()
ChatTexts == { <<>>, <<" ">>, <<"h", "i">> }

\* What the video entry may hold: blanks, or a URL.
VideoTexts == { <<" ">>, <<"u">> }

\* "Message received. We'll follow up soon!"
AutoReplyText ==
    << "M", "e", "s", "s", "a", "g", "e", " ", "r", "e",
       "c", "e", "i", "v", "e", "d", ".", " ", "W", "e",
       "'", "l", "l", " ", "f", "o", "l", "l", "o", "w",
       " ", "u", "p", " ", "s", "o", "o", "n", "!" >>

\* datetime.now().strftime(...): what the clock shows when a record is made.
\* No handler reads a time back, so one reading stands for all.
Times == { "09:01" }

(***************************************************************************)
(* self.data: a Python dict from keys to lists.                            *)
(***************************************************************************)
Keys == { "events", "finance", "projects", "chat" }

\* The dict __init__ and the except branch of _load_data build.
EmptyData == [k \in Keys |-> <<>>]

\* dict.get(key, [])
DictGet(d, k) == IF k \in DOMAIN d THEN d[k] ELSE <<>>

\* SetDefaultAppend, had the code appended to dict.get(key, []): the list a
\* missing key gets is then thrown away.
GetAppend(d, k, x) ==
    IF k \in DOMAIN d THEN [d EXCEPT ![k] = Append(@, x)] ELSE d

\* dict.setdefault(key, []).append(x)
SetDefaultAppend(d, k, x) ==
    [kk \in DOMAIN d \cup {k} |->
        IF kk = k THEN Append(DictGet(d, k), x) ELSE d[kk]]

\* d[key] = value
DictSet(d, k, value) ==
    [kk \in DOMAIN d \cup {k} |-> IF kk = k THEN value ELSE d[kk]]

\* Number of records held, for the bound of the model.
Records(d) ==
    Len(DictGet(d, "events")) + Len(DictGet(d, "finance"))
      + Len(DictGet(d, "projects")) + Len(DictGet(d, "chat"))

\* asdict(Event(...))
Event(title, date, description) ==
    [title |-> title, date |-> date, description |-> description]

\* asdict(FinanceEntry(...))
FinanceEntry(entry_type, amount, category, note, created_at) ==
    [entry_type |-> entry_type, amount |-> amount, category |-> category,
     note |-> note, created_at |-> created_at]

\* asdict(Project(...))
Project(name, manager, start_date, end_date, budget, status, description) ==
    [name |-> name, manager |-> manager, start_date |-> start_date,
     end_date |-> end_date, budget |-> budget, status |-> status,
     description |-> description]

ChatMessage(sender, message, timestamp) ==
    [sender |-> sender, message |-> message, timestamp |-> timestamp]

(***************************************************************************)
(* The backing file.  json.dumps writes a float as a number token, and NaN *)
(* as the token NaN; json.loads reads both back.                           *)
(***************************************************************************)
JsonNumber(x) ==
    IF x.isnan THEN [tok |-> "NaN", v |-> 0] ELSE [tok |-> "number", v |-> x.v]

FloatOfJson(j) == IF j.tok = "NaN" THEN NaN ELSE Num(j.v)

JsonOfRecord(k, r) ==
    IF k = "finance" THEN [r EXCEPT !.amount = JsonNumber(@)]
    ELSE IF k = "projects" THEN [r EXCEPT !.budget = JsonNumber(@)]
    ELSE r

RecordOfJson(k, j) ==
    IF k = "finance" THEN [j EXCEPT !.amount = FloatOfJson(@)]
    ELSE IF k = "projects" THEN [j EXCEPT !.budget = FloatOfJson(@)]
    ELSE j

\* json.dumps(self.data, indent=2)
JsonDumps(d) ==
    [k \in DOMAIN d |-> [i \in DOMAIN d[k] |-> JsonOfRecord(k, d[k][i])]]

\* json.loads of a document that is an object of arrays
JsonLoads(doc) ==
    [k \in DOMAIN doc |-> [i \in DOMAIN doc[k] |-> RecordOfJson(k, doc[k][i])]]

NoDoc == <<>>

\* DATA_DIR does not exist, and so neither does DATA_FILE.
FileNoDir == [kind |-> "nodir", doc |-> NoDoc]

\* DATA_DIR exists and DATA_FILE does not.
FileAbsent == [kind |-> "absent", doc |-> NoDoc]

\* Text that is not JSON and that json.loads rejects with JSONDecodeError
\* (an empty or truncated file).
FileMalformed == [kind |-> "malformed", doc |-> NoDoc]

\* Text that nests deeper than the parser can follow ("[" a hundred thousand
\* times): json.loads raises RecursionError.
FileTooDeep == [kind |-> "toodeep", doc |-> NoDoc]

\* Bytes that are not UTF-8.
FileUndecodable == [kind |-> "undecodable", doc |-> NoDoc]

\* Valid JSON that is not an object: [] .
FileNonObject == [kind |-> "nonobject", doc |-> NoDoc]

\* A document of an earlier version: only the finance key, with entry types
\* in other casings.
LegacyDoc ==
    [k \in {"finance"} |->
        << [entry_type |-> <<"i", "n", "c", "o", "m", "e">>,
            amount |-> [tok |-> "number", v |-> 5],
            category |-> Uncategorized, note |-> <<>>, created_at |-> "09:00"],
           [entry_type |-> <<"E", "X", "P", "E", "N", "S", "E">>,
            amount |-> [tok |-> "number", v |-> 3],
            category |-> Uncategorized, note |-> <<>>, created_at |-> "09:00"] >>]

FileLegacy == [kind |-> "object", doc |-> LegacyDoc]

\* The JSON text {} : an object with none of the four keys.
FileNoKeys == [kind |-> "object", doc |-> <<>>]

\* What DATA_FILE may hold at the first start, for the exploration of all
\* tabs together: no directory, no file, a text that does not parse, or a
\* document that parses and lacks keys.
StartFiles == { FileNoDir, FileAbsent, FileMalformed, FileNoKeys, FileLegacy }

\* What DATA_FILE may hold when the application is first started.
InitialFiles ==
    { FileNoDir, FileAbsent, FileMalformed, FileTooDeep, FileUndecodable,
      FileNonObject, FileLegacy }

\* DATA_FILE.write_text(json.dumps(self.data, indent=2), encoding="utf-8")
_save_data(d) == [kind |-> "object", doc |-> JsonDumps(d)]

\* What the file system may answer to a write of DATA_FILE.
DiskStates == { "writable", "readonly", "full" }

\* DATA_FILE.write_text(...) of _save_data on a disk in state dk, the file
\* being f: [raised, file].  The text is built first; open(..., "w") fails
\* on a read-only file and leaves it alone; on a full disk the open
\* truncates the file and the write raises, which leaves a cut-off text.
write_text(f, d, dk) ==
    CASE dk = "writable" -> [raised |-> "", file |-> _save_data(d)]
      [] dk = "readonly" -> [raised |-> "OSError", file |-> f]
      [] OTHER -> [raised |-> "OSError", file |-> FileMalformed]

\* What a handler leaves when the file is f and the disk in state dk, r being
\* what it leaves when the write succeeds: _save_data is the last statement
\* of a handler that touches self.data or a tree, and is reached in the
\* runs that end "ok".
Written(r, f, dk) ==
    IF r.outcome = "ok"
    THEN LET w == write_text(f, r.data, dk)
         IN  [r EXCEPT !.file = w.file,
                       !.outcome = IF w.raised = "" THEN "ok" ELSE w.raised]
    ELSE r

\* DATA_DIR.mkdir(parents=True, exist_ok=True) on a disk in state dk, DATA_FILE
\* being f: [raised, file].  A directory that exists is left alone, whatever
\* the disk; a missing one cannot be made on a read-only disk; on a full disk
\* it is made when the file system has room for it.
mkdir(f, dk, room) ==
    IF f.kind # "nodir" THEN [raised |-> "", file |-> f]
    ELSE IF dk = "writable" \/ (dk = "full" /\ room)
    THEN [raised |-> "", file |-> FileAbsent]
    ELSE [raised |-> "OSError", file |-> f]

\* _load_data on file f, self.data being EmptyData before the call:
\* [raised, isdict, data, warnings].  Only json.JSONDecodeError is caught.
_load_data(f) ==
    CASE f.kind \in {"absent", "nodir"} ->
           [raised |-> "", isdict |-> TRUE, data |-> EmptyData, warnings |-> 0]
      [] f.kind = "malformed" ->
           [raised |-> "", isdict |-> TRUE, data |-> EmptyData, warnings |-> 1]
      [] f.kind = "toodeep" ->
           [raised |-> "RecursionError", isdict |-> TRUE, data |-> EmptyData,
            warnings |-> 0]
      [] f.kind = "undecodable" ->
           [raised |-> "UnicodeDecodeError", isdict |-> TRUE, data |-> EmptyData,
            warnings |-> 0]
      [] f.kind = "nonobject" ->
           [raised |-> "", isdict |-> FALSE, data |-> EmptyData, warnings |-> 0]
      [] OTHER ->
           [raised |-> "", isdict |-> TRUE, data |-> JsonLoads(f.doc), warnings |-> 0]

(***************************************************************************)
(* ttk.Treeview: an ordered list of rows, each with a unique item id.      *)
(***************************************************************************)
TreeIids(tree) == { tree[i].iid : i \in DOMAIN tree }

\* Treeview.insert("", tk.END, iid=..., values=...): [ok, tree]; ok = FALSE is
\* the TclError Tk raises when an item with that id already exists.
TreeInsert(tree, iid, values) ==
    IF iid \in TreeIids(tree)
    THEN [ok |-> FALSE, tree |-> tree]
    ELSE [ok |-> TRUE, tree |-> Append(tree, [iid |-> iid, values |-> values])]

\* Treeview.delete(iid) of the row at position i.
TreeDelete(tree, i) == SubSeq(tree, 1, i - 1) \o SubSeq(tree, i + 1, Len(tree))

\* ttk._convert_stringval, applied to every value Treeview.item returns: text
\* that int() accepts comes back as an int, any other text as a str.
_convert_stringval(text) ==
    LET u == Unsigned(Strip(text))
    IN  IF AllDigits(u.body)
        THEN [py |-> "int", text |-> <<>>,
              int |-> IF u.neg THEN 0 - DigitsVal(u.body) ELSE DigitsVal(u.body)]
        ELSE [py |-> "str", text |-> text, int |-> 0]

\* Treeview.item(iid)["values"]
ItemValues(row) == [i \in DOMAIN row.values |-> _convert_stringval(row.values[i])]

\* text == value, for a str of the data and a value that came out of Tk: a
\* str never equals an int.
PyEq(text, value) == value.py = "str" /\ value.text = text

(***************************************************************************)
(* Bulletin events tab.                                                    *)
(***************************************************************************)
\* _insert_event_row: the item id is the title followed by the date.
_insert_event_row(tree, event) ==
    TreeInsert(tree, event.title \o event.date, <<event.date, event.title>>)

\* The loop of _build_events_tab over the loaded events.
RECURSIVE _build_events_tab(_, _)
_build_events_tab(tree, events) ==
    IF events = <<>> THEN [ok |-> TRUE, tree |-> tree]
    ELSE LET ins == _insert_event_row(tree, Head(events))
         IN  IF ins.ok THEN _build_events_tab(ins.tree, Tail(events)) ELSE ins

\* The two validations of _add_event, on the stripped title and date.
EventMissing(title, date_text) == title = <<>> \/ date_text = <<>>

\* _add_event with the form holding these three texts.
_add_event(d, tree, f, title_text, date_entry, description_text) ==
    LET title == Strip(title_text)
        date_text == Strip(date_entry)
        description == Strip(description_text)
        event == Event(title, date_text, description)
        d1 == SetDefaultAppend(d, "events", event)
        ins == _insert_event_row(tree, event)
    IN  IF EventMissing(title, date_text)
        THEN [data |-> d, tree |-> tree, file |-> f,
              outcome |-> "showerror: Missing Information"]
        ELSE IF ~Strptime(date_text)
        THEN [data |-> d, tree |-> tree, file |-> f,
              outcome |-> "showerror: Invalid Date"]
        ELSE IF ~ins.ok
        THEN [data |-> d1, tree |-> tree, file |-> f, outcome |-> "TclError"]
        ELSE [data |-> d1, tree |-> ins.tree, file |-> _save_data(d1), outcome |-> "ok"]

\* The list comprehension of _delete_event: the events kept.
EventsKept(events, values) ==
    SelectSeq(events,
              LAMBDA event : ~(PyEq(event.date, values[1]) /\ PyEq(event.title, values[2])))

\* _delete_event with row sel selected (0: nothing selected).
_delete_event(d, tree, f, sel) ==
    IF sel = 0
    THEN [data |-> d, tree |-> tree, file |-> f, outcome |-> "showinfo: No selection"]
    ELSE LET values == ItemValues(tree[sel])
             tree1 == TreeDelete(tree, sel)
         IN  IF "events" \notin DOMAIN d
             THEN [data |-> d, tree |-> tree1, file |-> f, outcome |-> "KeyError"]
             ELSE LET d1 == DictSet(d, "events", EventsKept(d["events"], values))
                  IN  [data |-> d1, tree |-> tree1, file |-> _save_data(d1),
                       outcome |-> "ok"]

(***************************************************************************)
(* Income and expenses tab.                                                *)
(***************************************************************************)
\* sum(...) of a list of floats, from 0, left to right.
RECURSIVE FSum(_)
FSum(amounts) ==
    IF amounts = <<>> THEN Num(0)
    ELSE FAdd(FSum(SubSeq(amounts, 1, Len(amounts) - 1)), amounts[Len(amounts)])

Amounts(entries) == [i \in DOMAIN entries |-> entries[i].amount]

\* IsIncome, had the income filter ignored case as the expense filter does.
IsIncomeAnyCase(entry) == Lower(entry.entry_type) = Lower(Income)

\* The two filters of _update_finance_summary.
IsIncome(entry) == entry.entry_type = Income

IsExpense(entry) == Lower(entry.entry_type) = <<"e", "x", "p", "e", "n", "s", "e">>

\* _update_finance_summary: the three numbers it formats into the label.
_update_finance_summary(d) ==
    LET income == FSum(Amounts(SelectSeq(DictGet(d, "finance"), IsIncome)))
        expenses == FSum(Amounts(SelectSeq(DictGet(d, "finance"), IsExpense)))
    IN  [income |-> income, expenses |-> expenses, balance |-> FSub(income, expenses)]

\* _add_finance_entry with the form holding these values, at time now.
_add_finance_entry(d, f, summary, entry_type, amount_text, category_text, note_text, now) ==
    LET parsed == ParseFloat(Strip(amount_text))
        category == IF Strip(category_text) = <<>> THEN Uncategorized
                    ELSE Strip(category_text)
        entry == FinanceEntry(entry_type, parsed.value, category, Strip(note_text), now)
        d1 == SetDefaultAppend(d, "finance", entry)
    IN  IF ~parsed.ok
        THEN [data |-> d, file |-> f, summary |-> summary,
              outcome |-> "showerror: Invalid amount (not numeric)"]
        ELSE IF FLeZero(parsed.value)
        THEN [data |-> d, file |-> f, summary |-> summary,
              outcome |-> "showerror: Invalid amount (not positive)"]
        ELSE [data |-> d1, file |-> _save_data(d1), summary |-> _update_finance_summary(d1),
              outcome |-> "ok"]

(***************************************************************************)
(* Media and chat tab.                                                     *)
(***************************************************************************)
\* _append_chat, had it put the new message first in the list.
_prepend_chat(d, sender, message, now) ==
    DictSet(d, "chat", <<ChatMessage(sender, message, now)>> \o DictGet(d, "chat"))

\* _append_chat(sender, message) with save=True: the new self.data.
_append_chat(d, sender, message, now) ==
    SetDefaultAppend(d, "chat", ChatMessage(sender, message, now))

\* _open_video with the video entry showing url_text: [outcome].  The browser
\* that webbrowser.open starts is a process of its own.
_open_video(url_text) ==
    IF Strip(url_text) = <<>>
    THEN [outcome |-> "showinfo: Missing information"]
    ELSE [outcome |-> "ok"]

\* _send_chat_message, had it tested the text of the entry as typed.
_send_chat_message_unstripped(d, f, n, message_text, now) ==
    LET d1 == _append_chat(d, "You", message_text, now)
    IN  IF message_text = <<>>
        THEN [data |-> d, file |-> f, pending |-> n, outcome |-> "ignored"]
        ELSE [data |-> d1, file |-> _save_data(d1), pending |-> n + 1, outcome |-> "ok"]

\* _send_chat_message with the entry holding message_text.
_send_chat_message(d, f, n, message_text, now) ==
    LET message == Strip(message_text)
        d1 == _append_chat(d, "You", message, now)
    IN  IF message = <<>>
        THEN [data |-> d, file |-> f, pending |-> n, outcome |-> "ignored"]
        ELSE [data |-> d1, file |-> _save_data(d1), pending |-> n + 1, outcome |-> "ok"]

(***************************************************************************)
(* Building projects tab.                                                  *)
(***************************************************************************)
ProjectRowValues(project) ==
    <<project.name, project.status, project.start_date, project.end_date,
      project.budget>>

\* _insert_project_row: the item id is the project's name.
_insert_project_row(tree, project) ==
    TreeInsert(tree, project.name, ProjectRowValues(project))

\* The loop of _build_projects_tab over the loaded projects.
RECURSIVE _build_projects_tab(_, _)
_build_projects_tab(tree, projects) ==
    IF projects = <<>> THEN [ok |-> TRUE, tree |-> tree]
    ELSE LET ins == _insert_project_row(tree, Head(projects))
         IN  IF ins.ok THEN _build_projects_tab(ins.tree, Tail(projects)) ELSE ins

\* budget_text = self.project_budget.get().strip() or "0"; float(budget_text)
ParseBudget(budget_entry) ==
    ParseFloat(IF Strip(budget_entry) = <<>> THEN <<"0">> ELSE Strip(budget_entry))

\* _add_project with the form holding these values.
_add_project(d, tree, f, name_text, budget_entry, status) ==
    LET name == Strip(name_text)
        parsed == ParseBudget(budget_entry)
        project == Project(name, Strip(ProjectManagerText), Strip(ProjectStartText),
                           Strip(ProjectEndText), parsed.value, status,
                           Strip(ProjectDescriptionText))
        d1 == SetDefaultAppend(d, "projects", project)
        ins == _insert_project_row(tree, project)
    IN  IF name = <<>>
        THEN [data |-> d, tree |-> tree, file |-> f,
              outcome |-> "showerror: Missing information"]
        ELSE IF ~parsed.ok
        THEN [data |-> d, tree |-> tree, file |-> f,
              outcome |-> "showerror: Invalid budget"]
        ELSE IF ~ins.ok
        THEN [data |-> d1, tree |-> tree, file |-> f, outcome |-> "TclError"]
        ELSE [data |-> d1, tree |-> ins.tree, file |-> _save_data(d1), outcome |-> "ok"]

\* FirstNamed, had the lookup kept the last project of that name.
LastNamed(projects, iid) ==
    IF \E i \in DOMAIN projects : projects[i].name = iid
    THEN CHOOSE i \in DOMAIN projects :
            /\ projects[i].name = iid
            /\ \A j \in (i + 1)..Len(projects) : projects[j].name # iid
    ELSE 0

\* next((p for p in projects if p["name"] == iid), None): the position of the
\* first project of that name, 0 for None.
FirstNamed(projects, iid) ==
    IF \E i \in DOMAIN projects : projects[i].name = iid
    THEN CHOOSE i \in DOMAIN projects :
            /\ projects[i].name = iid
            /\ \A j \in 1..(i - 1) : projects[j].name # iid
    ELSE 0

\* _update_project_status with row sel selected (0: nothing selected) and the
\* status combobox showing new_status.
_update_project_status(d, tree, f, sel, new_status) ==
    IF sel = 0
    THEN [data |-> d, tree |-> tree, file |-> f, outcome |-> "showinfo: No selection"]
    ELSE LET iid == tree[sel].iid
             at == FirstNamed(DictGet(d, "projects"), iid)
         IN  IF at = 0
             THEN [data |-> d, tree |-> tree, file |-> f,
                   outcome |-> "showerror: Missing project"]
             ELSE LET d1 == [d EXCEPT !["projects"][at].status = new_status]
                      tree1 == [tree EXCEPT ![sel].values =
                                   ProjectRowValues(d1["projects"][at])]
                  IN  [data |-> d1, tree |-> tree1, file |-> _save_data(d1),
                       outcome |-> "ok"]

\* ProjectsKept, had the delete dropped only the first project of that name.
ProjectsKeptButFirst(projects, iid) ==
    LET at == FirstNamed(projects, iid)
    IN  IF at = 0 THEN projects
        ELSE SubSeq(projects, 1, at - 1) \o SubSeq(projects, at + 1, Len(projects))

\* The list comprehension of _delete_project: the projects kept.
ProjectsKept(projects, iid) == SelectSeq(projects, LAMBDA p : p.name # iid)

\* _delete_project with row sel selected (0: nothing selected) and the answer
\* given to the confirmation dialog.
_delete_project(d, tree, f, sel, confirmed) ==
    IF sel = 0
    THEN [data |-> d, tree |-> tree, file |-> f, outcome |-> "showinfo: No selection"]
    ELSE IF ~confirmed
    THEN [data |-> d, tree |-> tree, file |-> f, outcome |-> "declined"]
    ELSE LET iid == tree[sel].iid
             d1 == DictSet(d, "projects", ProjectsKept(DictGet(d, "projects"), iid))
         IN  [data |-> d1, tree |-> TreeDelete(tree, sel), file |-> _save_data(d1),
              outcome |-> "ok"]

(***************************************************************************)
(* Start and end of the process.                                           *)
(***************************************************************************)
NoSummary == [income |-> Num(0), expenses |-> Num(0), balance |-> Num(0)]

\* The state of a process that does not run, DATA_FILE being f.
NoProcess(ph, f, outcome) ==
    [phase |-> ph, file |-> f, data |-> EmptyData, events_tree |-> <<>>,
     projects_tree |-> <<>>, summary |-> NoSummary, warnings |-> 0,
     outcome |-> outcome]

\* SDALocalApp.__init__ with DATA_FILE being f on a disk in state dk, the
\* warning of _load_data dismissed when it shows: the data directory is made,
\* _load_data runs, then the four tabs are built from self.data.  An
\* exception leaves __init__ and main(), and the process ends.
__init__(f, dk, room) ==
    LET mk == mkdir(f, dk, room)
        ld == _load_data(mk.file)
        ev == _build_events_tab(<<>>, DictGet(ld.data, "events"))
        pr == _build_projects_tab(<<>>, DictGet(ld.data, "projects"))
    IN  IF mk.raised # "" THEN NoProcess("crashed", mk.file, mk.raised)
        ELSE IF ld.raised # "" THEN NoProcess("crashed", mk.file, ld.raised)
        ELSE IF ~ld.isdict THEN NoProcess("crashed", mk.file, "AttributeError")
        ELSE IF ~ev.ok THEN NoProcess("crashed", mk.file, "TclError")
        ELSE IF ~pr.ok THEN NoProcess("crashed", mk.file, "TclError")
        ELSE [phase |-> "running", file |-> mk.file, data |-> ld.data,
              events_tree |-> ev.tree, projects_tree |-> pr.tree,
              summary |-> _update_finance_summary(ld.data),
              warnings |-> ld.warnings,
              outcome |-> IF ld.warnings > 0 THEN "showwarning: Data error" ELSE "ok"]

\* mainloop() serves the handlers of the widgets.
Idle == phase = "running"

\* An event loop serves timer callbacks and the WM_DELETE_WINDOW protocol:
\* mainloop(), or the loop a modal askyesno, showerror or showinfo runs while
\* it waits.  The grab of the dialog keeps the widgets of the window from
\* the user meanwhile.
Serving == phase \in {"running", "askyesno", "showerror", "showinfo"}

\* The outcomes a handler tells with messagebox.showerror before it returns.
ShowErrors ==
    { "showerror: Missing Information", "showerror: Invalid Date",
      "showerror: Invalid amount (not numeric)",
      "showerror: Invalid amount (not positive)",
      "showerror: Missing information", "showerror: Invalid budget",
      "showerror: Missing project" }

\* The outcomes a handler tells with messagebox.showinfo before it returns.
ShowInfos == { "showinfo: No selection", "showinfo: Missing information" }

\* Where a handler that has come to this outcome is: in the dialog that
\* tells it, or back in mainloop().
DialogOf(outcome) ==
    IF outcome \in ShowErrors THEN "showerror"
    ELSE IF outcome \in ShowInfos THEN "showinfo"
    ELSE "running"

\* No handler waits in a dialog.
NoHandler == [op |-> "none", outcome |-> "none"]

\* Handler op has come to this outcome: it has returned, or it waits in the
\* dialog that tells the outcome.
Ends(op, outcome) ==
    /\ last' = [op |-> op, outcome |-> outcome]
    /\ phase' = DialogOf(outcome)
    /\ waiting' = IF DialogOf(outcome) = "running" THEN NoHandler ELSE last'

\* The records of d, and the n replies still to come, fit the capacity cap
\* that bounds the exploration.
Fits(d, n, cap) == Records(d) + n <= cap

Init ==
    /\ phase = "off"
    /\ file \in InitialFiles
    /\ data = EmptyData
    /\ events_tree = <<>>
    /\ projects_tree = <<>>
    /\ finance_summary = NoSummary
    /\ pending = 0
    /\ warnings = 0
    /\ last = [op |-> "none", outcome |-> "ok"]
    /\ disk = "writable"
    /\ selected = 0
    /\ waiting = NoHandler

\* main(): the application is started on the file as it is.  On a file that
\* does not parse, _load_data opens its warning and __init__ waits there,
\* with self.data as __init__ made it and no tab built yet.
main ==
    /\ phase \in {"off", "crashed"}
    /\ \E room \in BOOLEAN :
          LET r == __init__(file, disk, room)
          IN  IF r.warnings > 0
              THEN /\ phase' = "showwarning"
                   /\ file' = r.file
                   /\ data' = EmptyData
                   /\ events_tree' = <<>>
                   /\ projects_tree' = <<>>
                   /\ finance_summary' = NoSummary
                   /\ warnings' = r.warnings
                   /\ last' = [op |-> "start", outcome |-> "showwarning"]
              ELSE /\ phase' = r.phase
                   /\ file' = r.file
                   /\ data' = r.data
                   /\ events_tree' = r.events_tree
                   /\ projects_tree' = r.projects_tree
                   /\ finance_summary' = r.summary
                   /\ warnings' = r.warnings
                   /\ last' = [op |-> "start", outcome |-> r.outcome]
    /\ pending' = 0
    /\ UNCHANGED <<disk, selected, waiting>>

\* The user dismisses the warning of _load_data: __init__ goes on, sets
\* self.data and builds the tabs.
showwarning_answered ==
    /\ phase = "showwarning"
    /\ LET r == __init__(file, disk, TRUE)
       IN  /\ phase' = r.phase
           /\ data' = r.data
           /\ events_tree' = r.events_tree
           /\ projects_tree' = r.projects_tree
           /\ finance_summary' = r.summary
           /\ warnings' = r.warnings
           /\ last' = [op |-> "start", outcome |-> r.outcome]
    /\ UNCHANGED <<file, pending, disk, selected, waiting>>

\* The user closes the window while the warning of _load_data is open:
\* _on_close is not registered yet, the window is destroyed without a save,
\* showwarning raises TclError and the process ends.
showwarning_closed ==
    /\ phase = "showwarning"
    /\ LET r == NoProcess("crashed", file, "TclError")
       IN  /\ phase' = r.phase
           /\ data' = r.data
           /\ events_tree' = r.events_tree
           /\ projects_tree' = r.projects_tree
           /\ finance_summary' = r.summary
           /\ warnings' = r.warnings
           /\ last' = [op |-> "start", outcome |-> r.outcome]
    /\ UNCHANGED <<file, pending, disk, selected, waiting>>

\* _on_close, had it let a pending callback run before the save.
_on_close_after_callbacks ==
    /\ Serving
    /\ LET d == IF pending > 0
                THEN _append_chat(data, "Auto-reply", AutoReplyText,
                                  CHOOSE now \in Times : TRUE)
                ELSE data
           w == write_text(file, d, disk)
       IN  /\ file' = w.file
           /\ IF w.raised = ""
              THEN /\ phase' = "off"
                   /\ data' = EmptyData
                   /\ events_tree' = <<>>
                   /\ projects_tree' = <<>>
                   /\ finance_summary' = NoSummary
                   /\ pending' = 0
                   /\ warnings' = 0
                   /\ selected' = 0
                   /\ waiting' = NoHandler
                   /\ last' = IF phase = "running"
                              THEN [op |-> "close", outcome |-> "ok"]
                              ELSE [op |-> waiting.op, outcome |-> "TclError"]
              ELSE /\ UNCHANGED <<phase, data, events_tree, projects_tree,
                                  finance_summary, pending, warnings, selected,
                                  waiting>>
                   /\ last' = [op |-> "close", outcome |-> w.raised]
    /\ UNCHANGED disk

\* _on_close: save, then destroy the window; pending callbacks die with it.
\* When the save raises, destroy is not reached and the window stays.  When
\* a handler waits in a dialog, the dialog finds the window destroyed and
\* raises TclError: the handler ends there (_delete_project with nothing
\* deleted).
_on_close ==
    /\ Serving
    /\ LET w == write_text(file, data, disk)
       IN  /\ file' = w.file
           /\ IF w.raised = ""
              THEN /\ phase' = "off"
                   /\ data' = EmptyData
                   /\ events_tree' = <<>>
                   /\ projects_tree' = <<>>
                   /\ finance_summary' = NoSummary
                   /\ pending' = 0
                   /\ warnings' = 0
                   /\ selected' = 0
                   /\ waiting' = NoHandler
                   /\ last' = IF phase = "running"
                              THEN [op |-> "close", outcome |-> "ok"]
                              ELSE [op |-> waiting.op, outcome |-> "TclError"]
              ELSE /\ UNCHANGED <<phase, data, events_tree, projects_tree,
                                  finance_summary, pending, warnings, selected,
                                  waiting>>
                   /\ last' = [op |-> "close", outcome |-> w.raised]
    /\ UNCHANGED disk

AddEvent(cap, title_text, date_entry, description_text) ==
    /\ Idle
    /\ LET r == Written(_add_event(data, events_tree, file, title_text, date_entry,
                                   description_text), file, disk)
       IN  /\ Fits(r.data, pending, cap)
           /\ data' = r.data
           /\ events_tree' = r.tree
           /\ file' = r.file
           /\ Ends("add_event", r.outcome)
    /\ UNCHANGED <<projects_tree, finance_summary, pending, warnings, disk, selected>>

DeleteEvent(sel) ==
    /\ Idle
    /\ sel \in 0..Len(events_tree)
    /\ LET r == Written(_delete_event(data, events_tree, file, sel), file, disk)
       IN  /\ data' = r.data
           /\ events_tree' = r.tree
           /\ file' = r.file
           /\ Ends("delete_event", r.outcome)
    /\ UNCHANGED <<projects_tree, finance_summary, pending, warnings, disk, selected>>

AddFinanceEntry(cap, entry_type, amount_text, category_text, note_text, now) ==
    /\ Idle
    /\ LET r == Written(_add_finance_entry(data, file, finance_summary, entry_type,
                                           amount_text, category_text, note_text, now),
                        file, disk)
       IN  /\ Fits(r.data, pending, cap)
           /\ data' = r.data
           /\ file' = r.file
           /\ finance_summary' = r.summary
           /\ Ends("add_finance_entry", r.outcome)
    /\ UNCHANGED <<events_tree, projects_tree, pending, warnings, disk, selected>>

SendChatMessage(cap, message_text, now) ==
    /\ Idle
    /\ LET r == Written(_send_chat_message(data, file, pending, message_text, now),
                        file, disk)
           \* self.after comes after the save: no callback when the save raised
           n == IF r.outcome = "OSError" THEN pending ELSE r.pending
       IN  /\ Fits(r.data, n, cap)
           /\ n <= MaxPending
           /\ data' = r.data
           /\ file' = r.file
           /\ pending' = n
           /\ last' = [op |-> "send_chat_message", outcome |-> r.outcome]
    /\ UNCHANGED <<phase, events_tree, projects_tree, finance_summary, warnings, disk,
                   selected, waiting>>

OpenVideo(url_text) ==
    /\ Idle
    /\ Ends("open_video", _open_video(url_text).outcome)
    /\ UNCHANGED <<file, data, events_tree, projects_tree, finance_summary, pending,
                   warnings, disk, selected>>

\* AutoReply, had the callback been scheduled to repeat.
AutoReplyRepeating(now) ==
    /\ Serving
    /\ pending > 0
    /\ data' = _append_chat(data, "Auto-reply", AutoReplyText, now)
    /\ LET w == write_text(file, data', disk)
       IN  /\ file' = w.file
           /\ last' = [op |-> "auto_reply",
                       outcome |-> IF w.raised = "" THEN "ok" ELSE w.raised]
    /\ pending' = pending
    /\ UNCHANGED <<phase, events_tree, projects_tree, finance_summary, warnings, disk,
                   selected, waiting>>

\* The callback scheduled by self.after(300, ...) fires, in mainloop() or
\* inside the confirmation dialog of _delete_project.
AutoReply(now) ==
    /\ Serving
    /\ pending > 0
    /\ data' = _append_chat(data, "Auto-reply", AutoReplyText, now)
    /\ LET w == write_text(file, data', disk)
       IN  /\ file' = w.file
           /\ last' = [op |-> "auto_reply",
                       outcome |-> IF w.raised = "" THEN "ok" ELSE w.raised]
    /\ pending' = pending - 1
    /\ UNCHANGED <<phase, events_tree, projects_tree, finance_summary, warnings, disk,
                   selected, waiting>>

AddProject(cap, name_text, budget_entry, status) ==
    /\ Idle
    /\ LET r == Written(_add_project(data, projects_tree, file, name_text, budget_entry,
                                     status), file, disk)
       IN  /\ Fits(r.data, pending, cap)
           /\ data' = r.data
           /\ projects_tree' = r.tree
           /\ file' = r.file
           /\ Ends("add_project", r.outcome)
    /\ UNCHANGED <<events_tree, finance_summary, pending, warnings, disk, selected>>

UpdateProjectStatus(sel, new_status) ==
    /\ Idle
    /\ sel \in 0..Len(projects_tree)
    /\ LET r == Written(_update_project_status(data, projects_tree, file, sel,
                                               new_status), file, disk)
       IN  /\ data' = r.data
           /\ projects_tree' = r.tree
           /\ file' = r.file
           /\ Ends("update_project_status", r.outcome)
    /\ UNCHANGED <<events_tree, finance_summary, pending, warnings, disk, selected>>

\* _delete_project up to its confirmation: with nothing selected it tells so
\* and returns; else it keeps the selected row and waits in askyesno.
DeleteProject(sel) ==
    /\ Idle
    /\ sel \in 0..Len(projects_tree)
    /\ IF sel = 0
       THEN /\ Ends("delete_project",
                    _delete_project(data, projects_tree, file, sel, FALSE).outcome)
            /\ UNCHANGED selected
       ELSE /\ phase' = "askyesno"
            /\ selected' = sel
            /\ last' = [op |-> "delete_project", outcome |-> "askyesno"]
            /\ waiting' = last'
    /\ UNCHANGED <<file, data, events_tree, projects_tree, finance_summary, pending,
                   warnings, disk>>

\* The user answers the confirmation: _delete_project goes on with the row
\* it kept.
askyesno_answered(confirmed) ==
    /\ phase = "askyesno"
    /\ LET r == Written(_delete_project(data, projects_tree, file, selected,
                                        confirmed), file, disk)
       IN  /\ data' = r.data
           /\ projects_tree' = r.tree
           /\ file' = r.file
           /\ last' = [op |-> "delete_project", outcome |-> r.outcome]
    /\ phase' = "running"
    /\ selected' = 0
    /\ waiting' = NoHandler
    /\ UNCHANGED <<events_tree, finance_summary, pending, warnings, disk>>

\* The user dismisses the showerror or showinfo a handler waits in: the
\* handler returns.
messagebox_answered ==
    /\ phase \in {"showerror", "showinfo"}
    /\ phase' = "running"
    /\ last' = waiting
    /\ waiting' = NoHandler
    /\ UNCHANGED <<file, data, events_tree, projects_tree, finance_summary, pending,
                   warnings, disk, selected>>

\* The rows the user can have selected: any row, or none (0).
Rows == 0..MaxRecords

EventsTab(cap) ==
    \/ \E t \in EventTitles, dt \in EventDates, ds \in EventDescriptions :
          AddEvent(cap, t, dt, ds)
    \/ \E sel \in Rows : DeleteEvent(sel)

FinanceTab(cap) ==
    \E ty \in FinanceTypes, a \in AmountTexts, c \in CategoryTexts,
       n \in NoteTexts, now \in Times :
       AddFinanceEntry(cap, ty, a, c, n, now)

ChatTab(cap) ==
    \/ \E u \in VideoTexts : OpenVideo(u)
    \/ \E m \in ChatTexts, now \in Times : SendChatMessage(cap, m, now)
    \/ \E now \in Times : AutoReply(now)

ProjectsTab(cap) ==
    \/ \E nm \in ProjectNames, b \in BudgetTexts, st \in Statuses :
          AddProject(cap, nm, b, st)
    \/ \E sel \in Rows, st \in Statuses : UpdateProjectStatus(sel, st)
    \/ \E sel \in Rows : DeleteProject(sel)
    \/ \E c \in BOOLEAN : askyesno_answered(c)

\* A start of the application, through the warning when there is one.
Start ==
    \/ main
    \/ showwarning_answered
    \/ showwarning_closed

\* The whole application.
Next ==
    \/ Start
    \/ _on_close
    \/ messagebox_answered
    \/ EventsTab(MaxTotal)
    \/ FinanceTab(MaxTotal)
    \/ ChatTab(MaxTotal)
    \/ ProjectsTab(MaxTotal)

Spec == Init /\ [][Next]_vars

\* The application with only the bulletin events tab used.
NextEvents == Start \/ _on_close \/ messagebox_answered \/ EventsTab(MaxRecords)

SpecEvents == Init /\ [][NextEvents]_vars

\* The application with only the income and expenses tab used.
NextFinance == Start \/ _on_close \/ messagebox_answered \/ FinanceTab(MaxRecords)

SpecFinance == Init /\ [][NextFinance]_vars

\* The application with only the building projects tab used.
NextProjects == Start \/ _on_close \/ messagebox_answered \/ ProjectsTab(MaxRecords)

SpecProjects == Init /\ [][NextProjects]_vars

\* The application with all tabs used, on a few inputs per form, started
\* with no file or on a document that lacks keys.
InitAllTabs ==
    /\ phase = "off"
    /\ file \in StartFiles
    /\ data = EmptyData
    /\ events_tree = <<>>
    /\ projects_tree = <<>>
    /\ finance_summary = NoSummary
    /\ pending = 0
    /\ warnings = 0
    /\ last = [op |-> "none", outcome |-> "ok"]
    /\ disk = "writable"
    /\ selected = 0
    /\ waiting = NoHandler

AllTabs(cap) ==
    \/ \E dt \in {D_2025_04_20, D_2025_02_30} :
          AddEvent(cap, <<" ", "A">>, dt, <<"\n">>)
    \/ \E sel \in Rows : DeleteEvent(sel)
    \/ \E ty \in FinanceTypes, now \in Times :
          AddFinanceEntry(cap, ty, <<"1", "0", "0">>, <<>>, <<>>, now)
    \/ ChatTab(cap)
    \/ \E st \in Statuses : AddProject(cap, <<"H">>, <<>>, st)
    \/ \E sel \in Rows, st \in Statuses : UpdateProjectStatus(sel, st)
    \/ \E sel \in Rows : DeleteProject(sel)
    \/ \E c \in BOOLEAN : askyesno_answered(c)

NextAllTabs == Start \/ _on_close \/ messagebox_answered \/ AllTabs(MaxAllTabs)

SpecAllTabs == InitAllTabs /\ [][NextAllTabs]_vars

\* All tabs used, the event loop of mainloop() serving every timer that is
\* due: a scheduled callback is not left waiting for ever.
SpecAllTabsLive ==
    InitAllTabs /\ [][NextAllTabs]_vars /\ WF_vars(\E now \in Times : AutoReply(now))

\* The file system changes under the application: the disk fills up, the
\* file is made read-only, or either is undone.
DiskChanges(dk) ==
    /\ dk # disk
    /\ disk' = dk
    /\ UNCHANGED <<phase, file, data, events_tree, projects_tree, finance_summary,
                   pending, warnings, last, selected, waiting>>

\* All tabs used, on a disk whose writes may fail.
NextDisk ==
    \/ Start
    \/ _on_close
    \/ messagebox_answered
    \/ AllTabs(MaxDisk)
    \/ \E dk \in DiskStates : DiskChanges(dk)

SpecDisk == InitAllTabs /\ [][NextDisk]_vars

(***************************************************************************)
(* Vocabulary of the claims.                                               *)
(***************************************************************************)
Collection(d, k) == DictGet(d, k)

\* What a load of file f would put in collection k.
Loaded(f, k) == DictGet(_load_data(f).data, k)

AllEmpty(d) == \A k \in Keys : Collection(d, k) = <<>>

\* A calendar date written YYYY-MM-DD: ten characters, zero-padded.
IsoDate(s) ==
    /\ Len(s) = 10
    /\ \A i \in {1, 2, 3, 4, 6, 7, 9, 10} : IsDigit(s[i])
    /\ s[5] = "-"
    /\ s[8] = "-"
    /\ LET y == DigitsVal(SubSeq(s, 1, 4))
           m == DigitsVal(SubSeq(s, 6, 7))
           d == DigitsVal(SubSeq(s, 9, 10))
       IN  y >= 1 /\ m \in 1..12 /\ d \in 1..DaysInMonth(y, m)

\* The event form holds a title and a date the specification calls valid.
ValidEventInput(title_text, date_entry) ==
    Strip(title_text) # <<>> /\ IsoDate(Strip(date_entry))

\* The event the form describes, surrounding whitespace aside.
EventTyped(title_text, date_entry, description_text) ==
    Event(Strip(title_text), Strip(date_entry), Strip(description_text))

HasKey(events, title, date) ==
    \E i \in DOMAIN events : events[i].title = title /\ events[i].date = date

\* The amount text is a number greater than zero.
PositiveNumber(amount_text) ==
    LET p == ParseFloat(amount_text)
    IN  p.ok /\ ~p.value.isnan /\ p.value.v > 0

\* The sum of the amounts of the entries at the positions in I.
RECURSIVE SumAt(_, _)
SumAt(entries, I) ==
    IF I = {} THEN Num(0)
    ELSE LET i == CHOOSE j \in I : \A k \in I : j >= k
         IN  FAdd(SumAt(entries, I \ {i}), entries[i].amount)

(***************************************************************************)
(* C1.  Every mutating operation is followed by a save before it returns:  *)
(* a handler that changes the in-memory collections leaves the persisted   *)
(* document equal to them.                                                 *)
(***************************************************************************)
C1_MutationIsSaved ==
    [][(Serving /\ Serving' /\ data' # data) => file' = _save_data(data')]_vars

(***************************************************************************)
(* C2.  A load of a file that is not a parseable document of the four      *)
(* collections completes with the four collections empty and exactly one   *)
(* warning; a load with the file absent completes with them empty and no   *)
(* warning.  (A start the user ends by closing the window on the warning   *)
(* is left aside: the load had given its warning.)                         *)
(***************************************************************************)
C2_LoadNeverRaises ==
    /\ (/\ last.op = "start"
        /\ last.outcome # "TclError"
        /\ file.kind \in {"malformed", "toodeep", "undecodable", "nonobject"})
          => (/\ phase \in {"showwarning", "running"}
              /\ AllEmpty(data)
              /\ warnings = 1)
    /\ (last.op = "start" /\ file.kind = "absent")
          => (phase = "running" /\ AllEmpty(data) /\ warnings = 0)

(***************************************************************************)
(* C3.  For every valid event input, add_event followed by a load of the   *)
(* saved document yields the previous events, unchanged and in order,      *)
(* followed by the event that was entered.                                 *)
(***************************************************************************)
C3_AddEventRoundTrip ==
    [][\A t \in EventTitles, dt \in EventDates, ds \in EventDescriptions :
          (ValidEventInput(t, dt) /\ AddEvent(MaxRecords, t, dt, ds))
             => Loaded(file', "events")
                  = Append(Collection(data, "events"), EventTyped(t, dt, ds))]_vars

(***************************************************************************)
(* C4.  delete_event for the key (title, date) of the selected row removes *)
(* exactly the events with that title and date: the events collection is   *)
(* the previous one with the matching entries filtered out, and finance,   *)
(* projects and chat are unchanged.                                        *)
(***************************************************************************)
C4_DeleteEventFilters ==
    [][\A sel \in Rows :
          (sel # 0 /\ DeleteEvent(sel))
             => LET date == events_tree[sel].values[1]
                    title == events_tree[sel].values[2]
                IN  /\ Collection(data', "events")
                         = SelectSeq(Collection(data, "events"),
                                     LAMBDA e : ~(e.title = title /\ e.date = date))
                    /\ \A k \in Keys \ {"events"} :
                          Collection(data', k) = Collection(data, k)]_vars

(***************************************************************************)
(* C5.  Adding an event whose (title, date) is already in the store        *)
(* succeeds like any other add, the store then holding both entries in     *)
(* memory and in the persisted document; a delete by a (title, date) that  *)
(* two or more entries share leaves no entry under the key.                *)
(***************************************************************************)
C5_DuplicateKeyAdd ==
    [][/\ \A t \in EventTitles, dt \in EventDates, ds \in EventDescriptions :
             (/\ ValidEventInput(t, dt)
              /\ HasKey(Collection(data, "events"), Strip(t), Strip(dt))
              /\ AddEvent(MaxRecords, t, dt, ds))
                => /\ Collection(data', "events")
                        = Append(Collection(data, "events"), EventTyped(t, dt, ds))
                   /\ Loaded(file', "events") = Collection(data', "events")
       /\ \A sel \in Rows :
             (/\ sel # 0
              /\ DeleteEvent(sel)
              /\ Len(SelectSeq(Collection(data, "events"),
                               LAMBDA e : /\ e.title = events_tree[sel].values[2]
                                          /\ e.date = events_tree[sel].values[1])) >= 2)
                => ~HasKey(Collection(data', "events"),
                           events_tree[sel].values[2], events_tree[sel].values[1])]_vars

(***************************************************************************)
(* C6.  add_finance_entry rejects every amount that is not a number        *)
(* greater than zero, leaving the finance collection and the persisted     *)
(* document as they were, so every entry it appends has amount > 0.        *)
(***************************************************************************)
C6_AmountMustBePositive ==
    [][\A ty \in FinanceTypes, a \in AmountTexts, c \in CategoryTexts,
          n \in NoteTexts, now \in Times :
          (~PositiveNumber(a) /\ AddFinanceEntry(MaxRecords, ty, a, c, n, now))
             => UNCHANGED <<data, file>>]_vars

(***************************************************************************)
(* C7.  add_event with an empty title, an empty date or a date that is not *)
(* a calendar date in YYYY-MM-DD form is aborted: the four collections and *)
(* the persisted document are as before and the process continues.         *)
(***************************************************************************)
C7_InvalidEventRejected ==
    [][\A t \in EventTitles, dt \in EventDates, ds \in EventDescriptions :
          (~ValidEventInput(t, dt) /\ AddEvent(MaxRecords, t, dt, ds))
             => (UNCHANGED <<data, file>> /\ Serving')]_vars

(***************************************************************************)
(* C8.  Every project in the collection has a non-empty name and a budget  *)
(* that is a number >= 0, add_project having rejected every other input.   *)
(***************************************************************************)
C8_ProjectsWellFormed ==
    \A i \in DOMAIN Collection(data, "projects") :
       LET p == Collection(data, "projects")[i]
       IN  p.name # <<>> /\ ~p.budget.isnan /\ p.budget.v >= 0

(***************************************************************************)
(* C9.  Whenever the application is idle, the finance summary shows, for   *)
(* the finance collection as it is now: income, the sum of the amounts of  *)
(* the entries whose type is exactly "Income"; expenses, the sum of the    *)
(* amounts of the entries whose type is "expense" ignoring case; balance,  *)
(* income minus expenses.  Entries of any other type count nowhere.        *)
(***************************************************************************)
C9_SummaryIsCurrent ==
    Serving =>
       LET fin == Collection(data, "finance")
           inc == SumAt(fin, {i \in DOMAIN fin : fin[i].entry_type = Income})
           exp == SumAt(fin, {i \in DOMAIN fin :
                                Lower(fin[i].entry_type)
                                   = <<"e", "x", "p", "e", "n", "s", "e">>})
       IN  finance_summary
              = [income |-> inc, expenses |-> exp, balance |-> FSub(inc, exp)]

\* An entry was just added to a ledger that holds an "income" and an
\* "EXPENSE" entry: only the new Income entry counts as income.
C9_Witness ==
    /\ Idle
    /\ last = [op |-> "add_finance_entry", outcome |-> "ok"]
    /\ Len(Collection(data, "finance")) = 3
    /\ \E i \in DOMAIN Collection(data, "finance") :
          Collection(data, "finance")[i].entry_type = <<"i", "n", "c", "o", "m", "e">>
    /\ finance_summary = [income |-> Num(100), expenses |-> Num(3), balance |-> Num(97)]

(***************************************************************************)
(* C10.  update_project_status on the selected row changes the status of   *)
(* the first project, in collection order, whose name is the row's name,   *)
(* and nothing else: the other projects, the other fields, the order and   *)
(* the other three collections are unchanged; the change is then saved.    *)
(***************************************************************************)
C10_UpdateFirstMatchOnly ==
    [][\A sel \in Rows, st \in Statuses :
          (sel # 0 /\ last'.op = "update_project_status" /\ UpdateProjectStatus(sel, st))
             => LET name == projects_tree[sel].iid
                    old == Collection(data, "projects")
                    first == CHOOSE i \in DOMAIN old :
                                /\ old[i].name = name
                                /\ \A j \in DOMAIN old : old[j].name = name => i <= j
                IN  /\ \E i \in DOMAIN old : old[i].name = name
                    /\ Collection(data', "projects")
                         = [old EXCEPT ![first].status = st]
                    /\ \A k \in Keys \ {"projects"} :
                          Collection(data', k) = Collection(data, k)
                    /\ file' = _save_data(data')]_vars

\* Two projects of one name, the first updated to "Completed", the second
\* still "Planned".
C10_Witness ==
    /\ last = [op |-> "update_project_status", outcome |-> "ok"]
    /\ \E i, j \in DOMAIN Collection(data, "projects") :
          /\ i < j
          /\ Collection(data, "projects")[i].name = Collection(data, "projects")[j].name
          /\ Collection(data, "projects")[i].status = "Completed"
          /\ Collection(data, "projects")[j].status = "Planned"
    /\ file = _save_data(data)

(***************************************************************************)
(* C11.  delete_project on the selected row, once confirmed, removes every *)
(* project whose name is the row's name and no other project, keeps the    *)
(* remaining projects in their order, and saves; with the confirmation     *)
(* declined or no row selected, the projects collection and the persisted  *)
(* document are unchanged.                                                 *)
(***************************************************************************)
C11_DeleteProjectFilters ==
    [][/\ \A c \in BOOLEAN :
             (last'.op = "delete_project" /\ askyesno_answered(c))
                => IF c
                   THEN LET name == projects_tree[selected].values[1]
                            old == Collection(data, "projects")
                            new == Collection(data', "projects")
                            kept == {i \in DOMAIN old : old[i].name # name}
                        IN  /\ Len(new) = Cardinality(kept)
                            /\ \A i \in kept :
                                  new[Cardinality({j \in kept : j <= i})] = old[i]
                            /\ file' = _save_data(data')
                   ELSE /\ Collection(data', "projects") = Collection(data, "projects")
                        /\ file' = file
       \* nothing selected, or the confirmation is asked
       /\ \A sel \in Rows :
             (last'.op = "delete_project" /\ DeleteProject(sel))
                => /\ Collection(data', "projects") = Collection(data, "projects")
                   /\ file' = file
       \* while the confirmation waits, and when the window is closed on it
       /\ (phase = "askyesno" /\ phase' = "askyesno")
             => Collection(data', "projects") = Collection(data, "projects")
       /\ (phase = "askyesno" /\ phase' = "off")
             => Loaded(file', "projects") = Collection(data, "projects")]_vars

\* A confirmed delete has just removed one of three projects and left two
\* projects of one name, in order, in memory and in the document.
C11_Witness ==
    /\ last = [op |-> "delete_project", outcome |-> "ok"]
    /\ Len(Collection(data, "projects")) = 2
    /\ Collection(data, "projects")[1].name = Collection(data, "projects")[2].name
    /\ Collection(data, "projects")[1].status # Collection(data, "projects")[2].status
    /\ file = _save_data(data)

(***************************************************************************)
(* C12.  A loaded document that parses and lacks some of the keys events,  *)
(* finance, projects, chat behaves as the same document with the missing   *)
(* keys holding empty arrays: the start renders the same rows and summary, *)
(* and every later operation ends the same way, with the same rows, the    *)
(* same summary and the same four collections in memory and in the         *)
(* document; no operation ends in a KeyError.                              *)
(***************************************************************************)
\* d with every missing key holding an empty list.
Filled(d) == [k \in Keys |-> DictGet(d, k)]

\* File f, a document with every missing key holding an empty array.
FilledFile(f) ==
    IF f.kind = "object" THEN [f EXCEPT !.doc = Filled(f.doc)] ELSE f

C12_MissingKeyIsEmpty ==
    [][/\ last'.outcome # "KeyError"
       /\ (last'.op = "start" /\ main /\ file.kind = "object")
             => LET r == __init__(FilledFile(file), disk, TRUE)
                IN  /\ phase' = r.phase
                    /\ Filled(data') = r.data
                    /\ events_tree' = r.events_tree
                    /\ projects_tree' = r.projects_tree
                    /\ finance_summary' = r.summary
                    /\ last'.outcome = r.outcome
       /\ \A t \in EventTitles, dt \in EventDates, ds \in EventDescriptions :
             (last'.op = "add_event" /\ AddEvent(MaxAllTabs, t, dt, ds))
                => LET r == _add_event(Filled(data), events_tree, FilledFile(file),
                                       t, dt, ds)
                   IN  /\ Filled(data') = r.data
                       /\ events_tree' = r.tree
                       /\ FilledFile(file') = r.file
                       /\ last'.outcome = r.outcome
       /\ \A sel \in Rows :
             (last'.op = "delete_event" /\ DeleteEvent(sel))
                => LET r == _delete_event(Filled(data), events_tree, FilledFile(file), sel)
                   IN  /\ Filled(data') = r.data
                       /\ events_tree' = r.tree
                       /\ FilledFile(file') = r.file
                       /\ last'.outcome = r.outcome
       /\ \A ty \in FinanceTypes, a \in AmountTexts, c \in CategoryTexts,
             n \in NoteTexts, now \in Times :
             (last'.op = "add_finance_entry" /\ AddFinanceEntry(MaxAllTabs, ty, a, c, n, now))
                => LET r == _add_finance_entry(Filled(data), FilledFile(file),
                                               finance_summary, ty, a, c, n, now)
                   IN  /\ Filled(data') = r.data
                       /\ finance_summary' = r.summary
                       /\ FilledFile(file') = r.file
                       /\ last'.outcome = r.outcome
       /\ \A u \in VideoTexts :
             (last'.op = "open_video" /\ OpenVideo(u))
                => /\ Filled(data') = Filled(data)
                   /\ FilledFile(file') = FilledFile(file)
                   /\ last'.outcome = _open_video(u).outcome
       /\ \A m \in ChatTexts, now \in Times :
             (last'.op = "send_chat_message" /\ SendChatMessage(MaxAllTabs, m, now))
                => LET r == _send_chat_message(Filled(data), FilledFile(file), pending,
                                               m, now)
                   IN  /\ Filled(data') = r.data
                       /\ pending' = r.pending
                       /\ FilledFile(file') = r.file
                       /\ last'.outcome = r.outcome
       /\ \A now \in Times :
             (last'.op = "auto_reply" /\ AutoReply(now))
                => /\ Filled(data')
                        = _append_chat(Filled(data), "Auto-reply", AutoReplyText, now)
                   /\ FilledFile(file') = _save_data(Filled(data'))
       /\ \A nm \in ProjectNames, b \in BudgetTexts, st \in Statuses :
             (last'.op = "add_project" /\ AddProject(MaxAllTabs, nm, b, st))
                => LET r == _add_project(Filled(data), projects_tree, FilledFile(file),
                                         nm, b, st)
                   IN  /\ Filled(data') = r.data
                       /\ projects_tree' = r.tree
                       /\ FilledFile(file') = r.file
                       /\ last'.outcome = r.outcome
       /\ \A sel \in Rows, st \in Statuses :
             (last'.op = "update_project_status" /\ UpdateProjectStatus(sel, st))
                => LET r == _update_project_status(Filled(data), projects_tree,
                                                   FilledFile(file), sel, st)
                   IN  /\ Filled(data') = r.data
                       /\ projects_tree' = r.tree
                       /\ FilledFile(file') = r.file
                       /\ last'.outcome = r.outcome
       /\ \A sel \in Rows :
             (last'.op = "delete_project" /\ DeleteProject(sel))
                => /\ Filled(data') = Filled(data)
                   /\ projects_tree' = projects_tree
                   /\ FilledFile(file') = FilledFile(file)
                   /\ last'.outcome
                         = IF sel = 0
                           THEN _delete_project(Filled(data), projects_tree,
                                                FilledFile(file), sel, FALSE).outcome
                           ELSE "askyesno"
       /\ \A c \in BOOLEAN :
             (last'.op = "delete_project" /\ askyesno_answered(c))
                => LET r == _delete_project(Filled(data), projects_tree,
                                            FilledFile(file), selected, c)
                   IN  /\ Filled(data') = r.data
                       /\ projects_tree' = r.tree
                       /\ FilledFile(file') = r.file
                       /\ last'.outcome = r.outcome]_vars

\* Started on the document {}, an event was added and then deleted: events
\* is the only key of self.data, and holds an empty list.
C12_Witness ==
    /\ last = [op |-> "delete_event", outcome |-> "ok"]
    /\ DOMAIN data = {"events"}
    /\ data["events"] = <<>>
    /\ file = [kind |-> "object", doc |-> [k \in {"events"} |-> <<>>]]

(***************************************************************************)
(* C13.  Every document written by a save has the four top-level keys      *)
(* events, finance, projects and chat, each holding an array, whatever     *)
(* document was loaded at the start and whatever operations came before.   *)
(***************************************************************************)
\* The handlers that end with a call of _save_data when they end normally.
SavingOps ==
    { "add_event", "delete_event", "add_finance_entry", "send_chat_message",
      "auto_reply", "add_project", "update_project_status", "delete_project" }

\* This step ran _save_data.
SaveRan ==
    \/ last'.op = "close"
    \/ phase = "askyesno" /\ phase' = "off"
    \/ last'.op \in SavingOps /\ last'.outcome = "ok"

C13_SavedDocHasFourKeys ==
    [][SaveRan => (file'.kind = "object" /\ DOMAIN file'.doc = Keys)]_vars

(***************************************************************************)
(* C14.  The finance and chat collections are append-only after the load:  *)
(* across every operation of the running application the finance sequence *)
(* and the chat sequence before the operation are prefixes of those after  *)
(* it, so no stored entry or message is removed, reordered or edited.      *)
(***************************************************************************)
IsPrefix(s, t) == Len(s) <= Len(t) /\ SubSeq(t, 1, Len(s)) = s

C14_AppendOnly ==
    [][(Serving /\ Serving')
          => /\ IsPrefix(Collection(data, "finance"), Collection(data', "finance"))
             /\ IsPrefix(Collection(data, "chat"), Collection(data', "chat"))]_vars

\* A finance entry was added, a message sent, and the reply has fired inside
\* the dialog of _open_video: the entry and the two messages are there, in
\* order.
C14_Witness ==
    /\ phase = "showinfo"
    /\ waiting.op = "open_video"
    /\ last = [op |-> "auto_reply", outcome |-> "ok"]
    /\ Len(Collection(data, "finance")) = 1
    /\ Len(Collection(data, "chat")) = 2
    /\ Collection(data, "chat")[1].sender = "You"
    /\ Collection(data, "chat")[2].sender = "Auto-reply"

(***************************************************************************)
(* C15.  A write that fails in save loses nothing: when the write raises   *)
(* in a mutating operation or on close, the application keeps running, the *)
(* four collections in memory hold what the operation made of them (on     *)
(* close, what they held), so that a later save persists them, and the     *)
(* document saved before is left as it was.                                *)
(***************************************************************************)
\* What operation op, run to its end from the state as it is, can leave in
\* self.data.
Outcomes(op) ==
    CASE op = "add_event" ->
           { _add_event(data, events_tree, file, t, dt, ds).data :
                t \in EventTitles, dt \in EventDates, ds \in EventDescriptions }
      [] op = "delete_event" ->
           { _delete_event(data, events_tree, file, sel).data :
                sel \in 0..Len(events_tree) }
      [] op = "add_finance_entry" ->
           { _add_finance_entry(data, file, finance_summary, ty, a, <<>>, <<>>, now).data :
                ty \in FinanceTypes, a \in AmountTexts, now \in Times }
      [] op = "send_chat_message" ->
           { _send_chat_message(data, file, pending, m, now).data :
                m \in ChatTexts, now \in Times }
      [] op = "auto_reply" ->
           { _append_chat(data, "Auto-reply", AutoReplyText, now) : now \in Times }
      [] op = "add_project" ->
           { _add_project(data, projects_tree, file, nm, b, st).data :
                nm \in ProjectNames, b \in BudgetTexts, st \in Statuses }
      [] op = "update_project_status" ->
           { _update_project_status(data, projects_tree, file, sel, st).data :
                sel \in 0..Len(projects_tree), st \in Statuses }
      [] op = "delete_project" ->
           { _delete_project(data, projects_tree, file, selected, c).data :
                c \in BOOLEAN }
      [] OTHER -> { data }

C15_FailedWriteLosesNothing ==
    [][(Serving /\ disk' = disk /\ last'.outcome = "OSError")
          => /\ Serving'
             /\ data' \in Outcomes(last'.op)
             /\ write_text(file', data', "writable").file = _save_data(data')
             /\ (file.kind = "object" => file' = file)]_vars

(***************************************************************************)
(* C16.  Sending a blank chat message (empty or whitespace only) is        *)
(* ignored: the chat collection and the persisted document are unchanged,  *)
(* no error is signalled and no auto-reply is scheduled.  Sending any      *)
(* other message appends exactly one record, with the fields sender,       *)
(* message and timestamp, and saves.                                       *)
(***************************************************************************)
Blank(text) == \A i \in DOMAIN text : IsSpace(text[i])

C16_BlankChatIgnored ==
    [][\A m \in ChatTexts, now \in Times :
          (last'.op = "send_chat_message" /\ SendChatMessage(MaxAllTabs, m, now))
             => IF Blank(m)
                THEN /\ UNCHANGED <<data, file, pending>>
                     /\ last'.outcome = "ignored"
                ELSE LET old == Collection(data, "chat")
                         new == Collection(data', "chat")
                     IN  /\ Len(new) = Len(old) + 1
                         /\ SubSeq(new, 1, Len(old)) = old
                         /\ DOMAIN new[Len(new)] = {"sender", "message", "timestamp"}
                         /\ new[Len(new)].sender = "You"
                         /\ new[Len(new)].message = Strip(m)
                         /\ new[Len(new)].timestamp = now
                         /\ \A k \in Keys \ {"chat"} :
                               Collection(data', k) = Collection(data, k)
                         /\ file' = _save_data(data')]_vars

\* A blank message was sent while the reply to an earlier message was still
\* pending: the chat holds that one message, the document too, and one
\* callback is pending.
C16_Witness ==
    /\ last = [op |-> "send_chat_message", outcome |-> "ignored"]
    /\ Len(Collection(data, "chat")) = 1
    /\ Collection(data, "chat")[1].sender = "You"
    /\ pending = 1
    /\ file = _save_data(data)

(***************************************************************************)
(* C17.  An auto-reply whose callback has not fired when the application   *)
(* is closed is never persisted: the document written on close holds the   *)
(* chat as it is in memory, the user's message included, with no           *)
(* "Auto-reply" record for a callback still pending; the callback is gone  *)
(* with the window, and nothing writes the document while the application *)
(* is not running.                                                         *)
(***************************************************************************)
\* Number of messages of this sender in a chat list.
From(chat, sender) == Cardinality({i \in DOMAIN chat : chat[i].sender = sender})

\* What DATA_FILE holds, the data directory aside.
Document(f) == IF f.kind = "nodir" THEN FileAbsent ELSE f

C17_PendingReplyNotPersisted ==
    [][/\ (Serving /\ phase' = "off")
             => /\ Loaded(file', "chat") = Collection(data, "chat")
                /\ From(Loaded(file', "chat"), "Auto-reply") + pending
                      <= From(Loaded(file', "chat"), "You")
                /\ pending' = 0
       /\ ~Serving => (Document(file') = Document(file) /\ pending' = 0)]_vars

\* The window was closed on the open dialog of _open_video while the reply
\* to the only message was pending: the document holds the message and no
\* reply.
C17_Witness ==
    /\ phase = "off"
    /\ last = [op |-> "open_video", outcome |-> "TclError"]
    /\ Len(Loaded(file, "chat")) = 1
    /\ Loaded(file, "chat")[1].sender = "You"
    /\ pending = 0

(***************************************************************************)
(* C18.  Each non-blank send schedules exactly one auto-reply that fires   *)
(* once: the send adds the user's message and one pending callback; while  *)
(* the application stays open every pending callback eventually fires;     *)
(* when one fires, the chat gains exactly one "Auto-reply" record, at the  *)
(* end and so after the message it answers, the callback is used up and    *)
(* the chat is saved; every other operation leaves the chat and the        *)
(* pending callbacks alone.  Hence n sends and their callbacks add 2n      *)
(* records, however they interleave.                                       *)
(***************************************************************************)
C18_OneReplyPerSend ==
    /\ [][(Serving /\ Serving')
            => LET old == Collection(data, "chat")
                   new == Collection(data', "chat")
               IN  CASE last'.op = "send_chat_message" /\ last'.outcome = "ok" ->
                          /\ Len(new) = Len(old) + 1
                          /\ new[Len(new)].sender = "You"
                          /\ pending' = pending + 1
                     [] last'.op = "auto_reply" ->
                          /\ pending > 0
                          /\ pending' = pending - 1
                          /\ Len(new) = Len(old) + 1
                          /\ SubSeq(new, 1, Len(old)) = old
                          /\ new[Len(new)].sender = "Auto-reply"
                          /\ new[Len(new)].message = AutoReplyText
                          /\ From(old, "You") >= From(old, "Auto-reply") + pending
                          /\ file' = _save_data(data')
                     [] OTHER -> new = old /\ pending' = pending]_vars
    /\ \A k \in 1..MaxPending :
          (Serving /\ pending = k) ~> (pending < k \/ ~Serving)

\* Two messages were sent, the second while the reply to the first was
\* pending, and both replies have fired: the chat holds the two messages and
\* then the two replies, and so does the document.
C18_Witness ==
    /\ Serving
    /\ last = [op |-> "auto_reply", outcome |-> "ok"]
    /\ pending = 0
    /\ Len(Collection(data, "chat")) = 4
    /\ Collection(data, "chat")[1].sender = "You"
    /\ Collection(data, "chat")[2].sender = "You"
    /\ Collection(data, "chat")[3].sender = "Auto-reply"
    /\ Collection(data, "chat")[4].sender = "Auto-reply"
    /\ file = _save_data(data)

(***************************************************************************)
(* C19.  Every document the application itself writes can be loaded and    *)
(* fully rendered at the next start: a start on the document written by a  *)
(* close completes without error and shows one row for every stored event  *)
(* and every stored project, also when several events share a (title,      *)
(* date) or several projects share a name.                                 *)
(***************************************************************************)
C19_OwnDocumentLoads ==
    [][(phase = "off" /\ last.op # "none" /\ main)
          => /\ phase' = "running"
             /\ Collection(data', "events") = Loaded(file, "events")
             /\ Collection(data', "projects") = Loaded(file, "projects")
             /\ Len(events_tree') = Len(Collection(data', "events"))
             /\ Len(projects_tree') = Len(Collection(data', "projects"))]_vars

====
